---- MODULE Spec2Model ----
(***************************************************************************)
(* idevicerestore: main() of src/idevicerestore.c as a sequential process  *)
(* (pc is the position in main), device_callback as the asynchronous       *)
(* observer of libimobiledevice's event thread, and the TSS lookup /       *)
(* personalization helpers as operators.                                   *)
(***************************************************************************)
EXTENDS Integers, Sequences, FiniteSets, TLC

\* ------------------------------------------------------------------------
\* Program constants
\* ------------------------------------------------------------------------
UNKNOWN_MODE == 0
DFU_MODE == 1
NORMAL_MODE == 2
RECOVERY_MODE == 3
RESTORE_MODE == 4

\* Bound of the model: number of messages the device sends in one session.
MaxMsgs == 3

\* Bound of the model: number of sleep(1) calls of the wait for restore mode.
MaxPolls == 2

NULL == "NULL"

\* The order in which main() calls the recovery_send_* functions.
BootChain == <<"iBEC", "AppleLogo", "DeviceTree", "RestoreRamDisk", "KernelCache">>

Components == {BootChain[i] : i \in 1..Len(BootChain)}

\* ------------------------------------------------------------------------
\* TSS responses: an ordered dictionary, a sequence of (key, value) entries.
\* A value is a dictionary (type "dict") carrying Path and Blob, each of
\* which may be absent (NULL), or a node of another type.
\* ------------------------------------------------------------------------
PathOf(c) == CASE c = "iBEC" -> "Firmware/dfu/iBEC.img3"
               [] c = "AppleLogo" -> "Firmware/all_flash/applelogo.img3"
               [] c = "DeviceTree" -> "Firmware/all_flash/DeviceTree.img3"
               [] c = "RestoreRamDisk" -> "018-6494-014.dmg"
               [] c = "KernelCache" -> "kernelcache.release"
               [] OTHER -> NULL

BlobOf(c) == CASE c = "iBEC" -> "blob_iBEC"
               [] c = "AppleLogo" -> "blob_AppleLogo"
               [] c = "DeviceTree" -> "blob_DeviceTree"
               [] c = "RestoreRamDisk" -> "blob_RestoreRamDisk"
               [] c = "KernelCache" -> "blob_KernelCache"
               [] OTHER -> NULL

DictEntry(c) == [key |-> c, type |-> "dict", path |-> PathOf(c), blob |-> BlobOf(c)]

FullTicket == [i \in 1..Len(BootChain) |-> DictEntry(BootChain[i])]

\* The ticket with the entry of component c left out.
TicketWithout(c) == SelectSeq(FullTicket, LAMBDA e : e.key # c)

\* The ticket with the entry of component c replaced by r.
TicketWith(c, r) == [i \in 1..Len(FullTicket) |->
                        IF FullTicket[i].key = c THEN r ELSE FullTicket[i]]

Tickets ==
    {FullTicket}
    \cup {TicketWithout(c) : c \in Components}
    \cup {TicketWith("KernelCache", [DictEntry("KernelCache") EXCEPT !.type = "string"]),
          TicketWith("KernelCache", [DictEntry("KernelCache") EXCEPT !.blob = NULL]),
          TicketWith("iBEC", [DictEntry("iBEC") EXCEPT !.path = NULL])}

\* No TSS response: tss_send_request has not returned one.
NoTicket == <<>>

\* The absent node: what plist_dict_get_item returns for a missing key.
NoNode == [key |-> NULL, type |-> NULL, path |-> NULL, blob |-> NULL]

\* plist_dict_get_item(tss, key): the value stored under key, or no node.
DictGetItem(tss, key) ==
    IF \E i \in 1..Len(tss) : tss[i].key = key
    THEN tss[CHOOSE i \in 1..Len(tss) :
                 tss[i].key = key /\ \A j \in 1..(i - 1) : tss[j].key # key]
    ELSE NoNode

\* get_tss_data_by_name(tss, entry, &path, &blob)
get_tss_data_by_name(tss, entry) ==
    LET node == DictGetItem(tss, entry) IN
    IF node = NoNode \/ node.type # "dict"
    THEN [rc |-> -1, path |-> NULL, blob |-> NULL]
    ELSE IF node.path = NULL
    THEN [rc |-> -1, path |-> NULL, blob |-> NULL]
    ELSE IF node.blob = NULL
    THEN [rc |-> -1, path |-> NULL, blob |-> NULL]
    ELSE [rc |-> 0, path |-> node.path, blob |-> node.blob]

\* Outcomes of the external calls made by one personalization:
\* ipsw_extract_to_memory, img3_parse_file, img3_replace_signature,
\* img3_get_data.
Envs == [extract : BOOLEAN, parse : BOOLEAN, replace : BOOLEAN, getdata : BOOLEAN]

\* get_tss_data_by_path(tss, path, &name, &blob), from entry i on: the loop
\* of lines 463-494 followed by the return of line 497.
RECURSIVE ScanByPath(_, _, _)
ScanByPath(tss, path, i) ==
    IF i > Len(tss)
    THEN [rc |-> -1, name |-> NULL, blob |-> NULL]
    ELSE IF tss[i].type # "dict"
    THEN ScanByPath(tss, path, i + 1)
    ELSE IF tss[i].path = NULL
    THEN [rc |-> -1, name |-> NULL, blob |-> NULL]
    ELSE IF tss[i].path = path
    THEN IF tss[i].blob = NULL
         THEN [rc |-> -1, name |-> NULL, blob |-> NULL]
         ELSE [rc |-> 0, name |-> tss[i].key, blob |-> tss[i].blob]
    ELSE ScanByPath(tss, path, i + 1)

\* get_tss_data_by_path(tss, path, &name, &blob)
get_tss_data_by_path(tss, path) == ScanByPath(tss, path, 1)

\* strrchr(path, '/') + 1, or path when it holds no '/': the file the debug
\* mode writes (lines 585-591, 664-670).
Basename(path) ==
    CASE path = "Firmware/dfu/iBEC.img3" -> "iBEC.img3"
      [] path = "Firmware/all_flash/applelogo.img3" -> "applelogo.img3"
      [] path = "Firmware/all_flash/DeviceTree.img3" -> "DeviceTree.img3"
      [] OTHER -> path

\* The signature an image carries as extracted from the IPSW.
OrigSig == "orig"

\* Lines 547-609 / 626-688, common to both variants once the TSS lookup has
\* succeeded with (path, blob): extract, parse, replace the signature unless
\* in custom mode, serialize, persist in debug mode.  steps lists the calls
\* made, in order; the image is the pair (payload, signature).
Personalize(lookup, path, blob, customFlag, debugFlag, env) ==
    LET fail(st) == [rc |-> -1, data |-> NULL, replaced |-> FALSE,
                     written |-> NULL, steps |-> st]
        s1 == <<lookup, "ipsw_extract_to_memory">>
        s2 == Append(s1, "img3_parse_file")
        s3 == IF customFlag = 0 THEN Append(s2, "img3_replace_signature") ELSE s2
        s4 == Append(s3, "img3_get_data")
        s5 == IF debugFlag # 0 THEN Append(s4, "write_file") ELSE s4
    IN
    IF ~env.extract THEN fail(s1)
    ELSE IF ~env.parse THEN fail(s2)
    ELSE IF customFlag = 0 /\ ~env.replace THEN fail(s3)
    ELSE IF ~env.getdata THEN [fail(s4) EXCEPT !.replaced = (customFlag = 0)]
    ELSE [rc |-> 0,
          data |-> [payload |-> path,
                    sig |-> IF customFlag = 0 THEN blob ELSE OrigSig],
          replaced |-> (customFlag = 0),
          written |-> IF debugFlag # 0 THEN Basename(path) ELSE NULL,
          steps |-> s5]

\* Mutant of get_signed_component_by_name: the test of idevicerestore_custom
\* at line 568 is left out, the signature is always replaced.
get_signed_component_by_name_AlwaysReplaces(tss, component, customFlag, debugFlag, env) ==
    LET t == get_tss_data_by_name(tss, component) IN
    IF t.rc < 0
    THEN [rc |-> -1, data |-> NULL, replaced |-> FALSE, written |-> NULL,
          steps |-> <<"get_tss_data_by_name">>]
    ELSE Personalize("get_tss_data_by_name", t.path, t.blob, 0, debugFlag, env)

\* get_signed_component_by_name(ipsw, tss, component, &data, &size) with the
\* flags idevicerestore_custom / idevicerestore_debug.
get_signed_component_by_name(tss, component, customFlag, debugFlag, env) ==
    LET t == get_tss_data_by_name(tss, component) IN
    IF t.rc < 0
    THEN [rc |-> -1, data |-> NULL, replaced |-> FALSE, written |-> NULL,
          steps |-> <<"get_tss_data_by_name">>]
    ELSE Personalize("get_tss_data_by_name", t.path, t.blob, customFlag, debugFlag, env)

\* get_signed_component_by_path(ipsw, tss, path, &data, &size)
get_signed_component_by_path(tss, path, customFlag, debugFlag, env) ==
    LET t == get_tss_data_by_path(tss, path) IN
    IF t.rc < 0
    THEN [rc |-> -1, data |-> NULL, replaced |-> FALSE, written |-> NULL,
          steps |-> <<"get_tss_data_by_path">>]
    ELSE Personalize("get_tss_data_by_path", path, t.blob, customFlag, debugFlag, env)

\* recovery_send_<component>(ipsw, tss): personalize the component by its
\* logical name, then transmit it on the recovery transport.
recovery_send(tss, component, customFlag, debugFlag, env, transportOk) ==
    IF get_signed_component_by_name(tss, component, customFlag, debugFlag, env).rc < 0
    THEN -1
    ELSE IF ~transportOk THEN -1
    ELSE 0

\* ------------------------------------------------------------------------
\* State
\* ------------------------------------------------------------------------
VARIABLES
    pc,                 \* position of main()
    ret,                \* value returned by main(), NULL while it runs
    phase,              \* the return statement main() left through
    ipsw,               \* TRUE when an IPSW path was given on the command line
    custom,             \* idevicerestore_custom
    debug,              \* idevicerestore_debug
    mode,               \* idevicerestore_mode
    quit,               \* idevicerestore_quit
    subscribed,         \* device_callback is registered with the event thread
    delivered,          \* the kinds of event the event thread has delivered
    probed,             \* the mode the initial probe assigned
    ecid,               \* the ECID read from the device
    owned,              \* handles and plists allocated and not yet released
    tss_response,       \* the TSS response, NoTicket before it is received
    fsFile,             \* the extracted filesystem image exists on disk
    extracted,          \* ipsw_extract_to_file succeeded in this run
    attempted,          \* recovery_send_* calls made, in order
    uploaded,           \* recovery_send_* calls that returned success, in order
    prompted,           \* the unplug/replug prompt was printed
    acked,              \* getchar() returned
    enterRecoveryCalls, \* number of lockdownd_enter_recovery calls
    message,            \* the message of the current loop iteration
    restore_error,      \* restore_error
    recvCount,          \* number of restored_receive calls
    recvAfterQuit,      \* restored_receive calls made with quit already set
    terminalSeen,       \* a StatusMsg with a terminal status was received
    startOk,            \* restored_start_restore returned success
    probeLog,           \* the enumerations the probe tried, with their results
    trace,              \* the phases main() has entered, in order
    polls,              \* sleep(1) calls made while waiting for restore mode
    pollsAfterQuit,     \* of these, the ones made with quit already set
    reported,           \* "Invalid return status" errors printed by the loop
    produced,           \* calls made by the dispatch of the latest message
    fnIn,               \* arguments of a direct call of a lookup / pipeline function
    fnOut               \* its result

ctl == <<pc, ret, phase>>
optv == <<ipsw, custom, debug>>
cbv == <<mode, quit, subscribed>>
idv == <<probed, ecid>>
resv == <<owned, tss_response, fsFile, extracted>>
bootv == <<attempted, uploaded, prompted, acked, enterRecoveryCalls>>
loopv == <<message, restore_error, recvCount, recvAfterQuit, terminalSeen, startOk>>

histv == <<probeLog, trace, polls, pollsAfterQuit, reported, produced>>
labv == <<fnIn, fnOut>>

vars == <<ctl, optv, cbv, delivered, idv, resv, bootv, loopv, histv, labv>>

NoMessage == [MsgType |-> NULL, DataType |-> NULL, terminal |-> FALSE]

DataTypes == {"SystemImageData", "KernelCache", "NORData", "Gibberish", NULL}

\* What restored_receive can deliver.  MsgType NULL stands for a message
\* without a string MsgType node (or no message at all).
Messages ==
    {[MsgType |-> t, DataType |-> NULL, terminal |-> FALSE] :
        t \in {"ProgressMsg", "UnknownMsg", NULL}}
    \cup {[MsgType |-> "DataRequestMsg", DataType |-> d, terminal |-> FALSE] :
        d \in DataTypes}
    \cup {[MsgType |-> "StatusMsg", DataType |-> NULL, terminal |-> b] :
        b \in BOOLEAN}

RESTORE_E_SUCCESS == 0
RestoreErrors == {RESTORE_E_SUCCESS, -1}

\* No direct call: the state of fnIn / fnOut while main() runs.
NoCall == [op |-> NULL]

\* The state of main() and of the globals when the program starts.
InitMain ==
    /\ pc = "start" /\ ret = NULL /\ phase = NULL
    /\ ipsw = FALSE /\ custom = 0 /\ debug = 0
    /\ mode = UNKNOWN_MODE /\ quit = 0 /\ subscribed = FALSE /\ delivered = {}
    /\ probed = UNKNOWN_MODE /\ ecid = 0
    /\ owned = {} /\ tss_response = NoTicket /\ fsFile = FALSE /\ extracted = FALSE
    /\ attempted = <<>> /\ uploaded = <<>> /\ prompted = FALSE /\ acked = FALSE
    /\ enterRecoveryCalls = 0
    /\ message = NoMessage /\ restore_error = RESTORE_E_SUCCESS
    /\ recvCount = 0 /\ recvAfterQuit = 0 /\ terminalSeen = FALSE /\ startOk = FALSE
    /\ probeLog = <<>> /\ trace = <<>> /\ polls = 0 /\ pollsAfterQuit = 0
    /\ reported = 0 /\ produced = <<>>

Init == InitMain /\ fnIn = NoCall /\ fnOut = NoCall

\* return r; from main, through the return statement named tag
Return(r, tag) == pc' = "done" /\ ret' = r /\ phase' = tag

Goto(l) == pc' = l /\ UNCHANGED <<ret, phase>>

\* ------------------------------------------------------------------------
\* main(): option parsing, probe, ECID
\* ------------------------------------------------------------------------
ParseArgs ==
    /\ pc = "start"
    /\ \E c \in {0, 1}, d \in {0, 1}, given \in BOOLEAN :
        /\ custom' = c /\ debug' = d /\ ipsw' = given
        /\ IF given THEN Goto("probe") ELSE Return(-1, "no_ipsw")
    /\ UNCHANGED <<delivered, labv, probeLog, trace, polls, pollsAfterQuit, reported, produced, cbv, idv, resv, bootv, loopv>>

\* Mutant of Probe: the recovery-mode enumeration is tried first.
Probe_RecoveryFirst ==
    /\ pc = "probe"
    /\ trace' = Append(trace, "probe")
    /\ \E normalOk \in BOOLEAN, recoveryOk \in BOOLEAN :
        IF recoveryOk
        THEN /\ probeLog' = <<[call |-> "irecv_open", ok |-> TRUE]>>
             /\ owned' = owned \cup {"recovery"}
             /\ mode' = RECOVERY_MODE /\ probed' = RECOVERY_MODE
             /\ Goto("ecid")
        ELSE IF normalOk
        THEN /\ probeLog' = <<[call |-> "irecv_open", ok |-> FALSE],
                              [call |-> "idevice_new", ok |-> TRUE]>>
             /\ owned' = owned \cup {"device"}
             /\ mode' = NORMAL_MODE /\ probed' = NORMAL_MODE
             /\ Goto("ecid")
        ELSE /\ probeLog' = <<[call |-> "irecv_open", ok |-> FALSE],
                              [call |-> "idevice_new", ok |-> FALSE]>>
             /\ Return(-1, "no_device")
             /\ UNCHANGED <<owned, mode, probed>>
    /\ UNCHANGED <<optv, delivered, labv, polls, pollsAfterQuit, reported, produced, quit, subscribed, ecid, tss_response, fsFile, extracted,
                   bootv, loopv>>

\* lines 111-127
Probe ==
    /\ pc = "probe"
    /\ trace' = Append(trace, "probe")
    /\ \E normalOk \in BOOLEAN, recoveryOk \in BOOLEAN :
        IF normalOk
        THEN /\ probeLog' = <<[call |-> "idevice_new", ok |-> TRUE]>>
             /\ owned' = owned \cup {"device"}
             /\ mode' = NORMAL_MODE /\ probed' = NORMAL_MODE
             /\ Goto("ecid")
        ELSE IF recoveryOk
        THEN /\ probeLog' = <<[call |-> "idevice_new", ok |-> FALSE],
                              [call |-> "irecv_open", ok |-> TRUE]>>
             /\ owned' = owned \cup {"recovery"}
             /\ mode' = RECOVERY_MODE /\ probed' = RECOVERY_MODE
             /\ Goto("ecid")
        ELSE /\ probeLog' = <<[call |-> "idevice_new", ok |-> FALSE],
                              [call |-> "irecv_open", ok |-> FALSE]>>
             /\ Return(-1, "no_device")
             /\ UNCHANGED <<owned, mode, probed>>
    /\ UNCHANGED <<optv, delivered, labv, polls, pollsAfterQuit, reported, produced, quit, subscribed, ecid, tss_response, fsFile, extracted,
                   bootv, loopv>>

\* lines 130-136
LockdownConnect ==
    /\ pc = "ecid" /\ mode = NORMAL_MODE
    /\ trace' = Append(trace, "ecid")
    /\ \E ok \in BOOLEAN :
        IF ok
        THEN owned' = owned \cup {"lockdown"} /\ Goto("ecid_value")
        ELSE owned' = owned \ {"device"} /\ Return(-1, "ecid_lockdown")
    /\ UNCHANGED <<optv, delivered, labv, probeLog, polls, pollsAfterQuit, reported, produced, cbv, idv, tss_response, fsFile, extracted, bootv, loopv>>

\* lines 138-159
LockdownGetEcid ==
    /\ pc = "ecid_value"
    /\ \E outcome \in {"error", "badtype", "ok"}, value \in {0, 1} :
        IF outcome = "ok"
        THEN ecid' = value /\ Goto("ecid_check")
        ELSE ecid' = ecid /\ Return(-1, "ecid_value")
    /\ owned' = owned \ {"lockdown", "device"}
    /\ UNCHANGED <<optv, delivered, labv, probeLog, trace, polls, pollsAfterQuit, reported, produced, cbv, probed, tss_response, fsFile, extracted, bootv, loopv>>

\* lines 161-170
RecoveryGetEcid ==
    /\ pc = "ecid" /\ mode = RECOVERY_MODE
    /\ trace' = Append(trace, "ecid")
    /\ \E ok \in BOOLEAN, value \in {0, 1} :
        IF ok
        THEN ecid' = value /\ Goto("ecid_check")
        ELSE ecid' = ecid /\ Return(-1, "ecid_recovery")
    /\ owned' = owned \ {"recovery"}
    /\ UNCHANGED <<optv, delivered, labv, probeLog, polls, pollsAfterQuit, reported, produced, cbv, probed, tss_response, fsFile, extracted, bootv, loopv>>

\* Mutant of CheckEcid: the test of line 172 is left out.
CheckEcid_AcceptsZero ==
    /\ pc = "ecid_check"
    /\ Goto("manifest")
    /\ UNCHANGED <<optv, delivered, labv, probeLog, trace, polls, pollsAfterQuit, reported, produced, cbv, idv, resv, bootv, loopv>>

\* lines 172-177
CheckEcid ==
    /\ pc = "ecid_check"
    /\ IF ecid # 0 THEN Goto("manifest") ELSE Return(-1, "ecid_zero")
    /\ UNCHANGED <<optv, delivered, labv, probeLog, trace, polls, pollsAfterQuit, reported, produced, cbv, idv, resv, bootv, loopv>>

\* ------------------------------------------------------------------------
\* main(): manifest, TSS request, filesystem image
\* ------------------------------------------------------------------------
\* lines 179-189
ExtractManifest ==
    /\ pc = "manifest"
    /\ trace' = Append(trace, "manifest")
    /\ \E ok \in BOOLEAN :
        IF ok
        THEN owned' = owned \cup {"manifest"} /\ Goto("tss_create")
        ELSE owned' = owned /\ Return(-1, "manifest")
    /\ UNCHANGED <<optv, delivered, labv, probeLog, polls, pollsAfterQuit, reported, produced, cbv, idv, tss_response, fsFile, extracted, bootv, loopv>>

\* lines 191-198
TssCreateRequest ==
    /\ pc = "tss_create"
    /\ trace' = Append(trace, "signing")
    /\ \E ok \in BOOLEAN :
        IF ok
        THEN owned' = (owned \ {"manifest"}) \cup {"tss_request"} /\ Goto("tss_send")
        ELSE owned' = owned \ {"manifest"} /\ Return(-1, "tss_create")
    /\ UNCHANGED <<optv, delivered, labv, probeLog, polls, pollsAfterQuit, reported, produced, cbv, idv, tss_response, fsFile, extracted, bootv, loopv>>

\* lines 200-207
TssSendRequest ==
    /\ pc = "tss_send"
    /\ \/ \E t \in Tickets :
            /\ tss_response' = t
            /\ owned' = owned \cup {"tss_response"}
            /\ Goto("fs_name")
       \/ /\ tss_response' = tss_response
          /\ owned' = owned \ {"tss_request"}
          /\ Return(-1, "tss_send")
    /\ UNCHANGED <<optv, delivered, labv, probeLog, trace, polls, pollsAfterQuit, reported, produced, cbv, idv, fsFile, extracted, bootv, loopv>>

\* lines 209-232
FilesystemName ==
    /\ pc = "fs_name"
    /\ trace' = Append(trace, "filesystem")
    /\ \E ok \in BOOLEAN :
        IF ok THEN Goto("fs_extract") ELSE Return(-1, "fs_name")
    /\ owned' = owned \ {"tss_request"}
    /\ UNCHANGED <<optv, delivered, labv, probeLog, polls, pollsAfterQuit, reported, produced, cbv, idv, tss_response, fsFile, extracted, bootv, loopv>>

\* Mutant of ExtractFilesystem: the return of line 237 is left out.
ExtractFilesystem_IgnoresFailure ==
    /\ pc = "fs_extract"
    /\ \E ok \in BOOLEAN :
        IF ok
        THEN fsFile' = TRUE /\ extracted' = TRUE /\ Goto("enter_recovery")
        ELSE UNCHANGED <<fsFile, extracted>> /\ Goto("enter_recovery")
    /\ UNCHANGED <<optv, delivered, labv, probeLog, trace, polls, pollsAfterQuit, reported, produced, cbv, idv, owned, tss_response, bootv, loopv>>

\* lines 234-238
ExtractFilesystem ==
    /\ pc = "fs_extract"
    /\ \E ok \in BOOLEAN :
        IF ok
        THEN fsFile' = TRUE /\ extracted' = TRUE /\ Goto("enter_recovery")
        ELSE UNCHANGED <<fsFile, extracted>> /\ Return(-1, "fs_extract")
    /\ UNCHANGED <<optv, delivered, labv, probeLog, trace, polls, pollsAfterQuit, reported, produced, cbv, idv, owned, tss_response, bootv, loopv>>

\* ------------------------------------------------------------------------
\* main(): place the device into recovery mode if required (lines 240-271)
\* ------------------------------------------------------------------------
\* line 241, the branch not taken
SkipEnterRecovery ==
    /\ pc = "enter_recovery" /\ mode # NORMAL_MODE
    /\ Goto("send_ibec")
    /\ UNCHANGED <<optv, delivered, labv, probeLog, trace, polls, pollsAfterQuit, reported, produced, cbv, idv, resv, bootv, loopv>>

\* Mutant of EnterRecoveryOpenDevice: the mode test of line 241 is left out.
EnterRecoveryOpenDevice_Unguarded ==
    /\ pc = "enter_recovery"
    /\ trace' = Append(trace, "enter_recovery")
    /\ \E ok \in BOOLEAN :
        IF ok
        THEN owned' = owned \cup {"device"} /\ Goto("recovery_lockdown")
        ELSE owned' = owned \ {"tss_response"} /\ Return(-1, "recovery_device")
    /\ UNCHANGED <<optv, delivered, labv, probeLog, polls, pollsAfterQuit, reported, produced, cbv, idv, tss_response, fsFile, extracted, bootv, loopv>>

\* lines 241-248
EnterRecoveryOpenDevice ==
    /\ pc = "enter_recovery" /\ mode = NORMAL_MODE
    /\ trace' = Append(trace, "enter_recovery")
    /\ \E ok \in BOOLEAN :
        IF ok
        THEN owned' = owned \cup {"device"} /\ Goto("recovery_lockdown")
        ELSE owned' = owned \ {"tss_response"} /\ Return(-1, "recovery_device")
    /\ UNCHANGED <<optv, delivered, labv, probeLog, polls, pollsAfterQuit, reported, produced, cbv, idv, tss_response, fsFile, extracted, bootv, loopv>>

\* lines 250-256
EnterRecoveryLockdown ==
    /\ pc = "recovery_lockdown"
    /\ \E ok \in BOOLEAN :
        IF ok
        THEN owned' = owned \cup {"lockdown"} /\ Goto("recovery_enter")
        ELSE owned' = owned \ {"tss_response", "device"}
             /\ Return(-1, "recovery_lockdown")
    /\ UNCHANGED <<optv, delivered, labv, probeLog, trace, polls, pollsAfterQuit, reported, produced, cbv, idv, tss_response, fsFile, extracted, bootv, loopv>>

\* Mutant of EnterRecovery: lines 267-268 are left out.
EnterRecovery_KeepsHandles ==
    /\ pc = "recovery_enter"
    /\ enterRecoveryCalls' = enterRecoveryCalls + 1
    /\ \E ok \in BOOLEAN :
        IF ok
        THEN owned' = owned /\ Goto("send_ibec")
        ELSE owned' = owned \ {"lockdown", "tss_response", "device"}
             /\ Return(-1, "recovery_enter")
    /\ UNCHANGED <<optv, delivered, labv, probeLog, trace, polls, pollsAfterQuit, reported, produced, cbv, idv, tss_response, fsFile, extracted,
                   attempted, uploaded, prompted, acked, loopv>>

\* lines 258-270
EnterRecovery ==
    /\ pc = "recovery_enter"
    /\ enterRecoveryCalls' = enterRecoveryCalls + 1
    /\ \E ok \in BOOLEAN :
        IF ok
        THEN owned' = owned \ {"lockdown", "device"} /\ Goto("send_ibec")
        ELSE owned' = owned \ {"lockdown", "tss_response", "device"}
             /\ Return(-1, "recovery_enter")
    /\ UNCHANGED <<optv, delivered, labv, probeLog, trace, polls, pollsAfterQuit, reported, produced, cbv, idv, tss_response, fsFile, extracted,
                   attempted, uploaded, prompted, acked, loopv>>

\* ------------------------------------------------------------------------
\* main(): upload data to make the device boot restore mode (lines 273-309)
\* ------------------------------------------------------------------------
\* Mutant of BootStep: the result of recovery_send_* is not tested.
BootStep_IgnoresFailure(here, component, next) ==
    /\ pc = here
    /\ trace' = IF here = "send_ibec" THEN Append(trace, "boot_chain") ELSE trace
    /\ attempted' = Append(attempted, component)
    /\ \E env \in Envs, transportOk \in BOOLEAN :
        IF recovery_send(tss_response, component, custom, debug, env, transportOk) < 0
        THEN uploaded' = uploaded
        ELSE uploaded' = Append(uploaded, component)
    /\ owned' = owned
    /\ Goto(next)
    /\ UNCHANGED <<optv, delivered, labv, probeLog, polls, pollsAfterQuit, reported, produced, cbv, idv, tss_response, fsFile, extracted,
                   prompted, acked, enterRecoveryCalls, loopv>>

\* if (recovery_send_<component>(ipsw, tss_response) < 0) { ...; return -1; }
BootStep(here, component, next) ==
    /\ pc = here
    /\ trace' = IF here = "send_ibec" THEN Append(trace, "boot_chain") ELSE trace
    /\ attempted' = Append(attempted, component)
    /\ \E env \in Envs, transportOk \in BOOLEAN :
        IF recovery_send(tss_response, component, custom, debug, env, transportOk) < 0
        THEN /\ owned' = owned \ {"tss_response"}
             /\ uploaded' = uploaded
             /\ Return(-1, here)
        ELSE /\ owned' = owned
             /\ uploaded' = Append(uploaded, component)
             /\ Goto(next)
    /\ UNCHANGED <<optv, delivered, labv, probeLog, polls, pollsAfterQuit, reported, produced, cbv, idv, tss_response, fsFile, extracted,
                   prompted, acked, enterRecoveryCalls, loopv>>

\* lines 274-279
SendIBEC == BootStep("send_ibec", "iBEC", "send_applelogo")

\* lines 281-285
SendAppleLogo == BootStep("send_applelogo", "AppleLogo", "send_devicetree")

\* lines 287-291
SendDeviceTree == BootStep("send_devicetree", "DeviceTree", "send_ramdisk")

\* Mutant of SendRamdisk: the operator pause of lines 299-303 is left out.
SendRamdisk_NoPause == BootStep("send_ramdisk", "RestoreRamDisk", "send_kernelcache")

\* lines 293-297
SendRamdisk == BootStep("send_ramdisk", "RestoreRamDisk", "prompt")

\* lines 299-302
Prompt ==
    /\ pc = "prompt"
    /\ prompted' = TRUE
    /\ Goto("getchar")
    /\ UNCHANGED <<optv, delivered, labv, probeLog, trace, polls, pollsAfterQuit, reported, produced, cbv, idv, resv, attempted, uploaded, acked,
                   enterRecoveryCalls, loopv>>

\* line 303
Getchar ==
    /\ pc = "getchar"
    /\ acked' = TRUE
    /\ Goto("send_kernelcache")
    /\ UNCHANGED <<optv, delivered, labv, probeLog, trace, polls, pollsAfterQuit, reported, produced, cbv, idv, resv, attempted, uploaded, prompted,
                   enterRecoveryCalls, loopv>>

\* lines 305-309
SendKernelCache == BootStep("send_kernelcache", "KernelCache", "subscribe")

\* ------------------------------------------------------------------------
\* main(): wait for restore mode, open the restore session (lines 311-343)
\* ------------------------------------------------------------------------
\* lines 311-312
Subscribe ==
    /\ pc = "subscribe"
    /\ trace' = Append(trace, "await_restore")
    /\ subscribed' = TRUE
    /\ Goto("wait")
    /\ UNCHANGED <<optv, delivered, labv, probeLog, polls, pollsAfterQuit, reported, produced, mode, quit, idv, resv, bootv, loopv>>

\* Mutant of WaitRestoreMode: the loop of lines 314-316 is left out.
WaitRestoreMode_NoWait ==
    /\ pc = "wait"
    /\ Goto("open_device")
    /\ UNCHANGED <<optv, delivered, labv, probeLog, trace, polls, pollsAfterQuit, reported, produced, cbv, idv, resv, bootv, loopv>>

\* lines 314-315: the mode read is not RESTORE_MODE, sleep(1)
PollRestoreMode ==
    /\ pc = "wait"
    /\ mode # RESTORE_MODE
    /\ polls < MaxPolls
    /\ polls' = polls + 1
    /\ pollsAfterQuit' = IF quit # 0 THEN pollsAfterQuit + 1 ELSE pollsAfterQuit
    /\ UNCHANGED <<ctl, optv, delivered, labv, probeLog, trace, reported, produced,
                   cbv, idv, resv, bootv, loopv>>

\* lines 314-316: the loop is left when the mode read is RESTORE_MODE
WaitRestoreMode ==
    /\ pc = "wait"
    /\ mode = RESTORE_MODE
    /\ Goto("open_device")
    /\ UNCHANGED <<optv, delivered, labv, probeLog, trace, polls, pollsAfterQuit, reported, produced, cbv, idv, resv, bootv, loopv>>

\* lines 318-323
OpenRestoreDevice ==
    /\ pc = "open_device"
    /\ trace' = Append(trace, "restore_session")
    /\ \E ok \in BOOLEAN :
        IF ok
        THEN owned' = owned \cup {"device"} /\ Goto("open_restore")
        ELSE owned' = owned \ {"tss_response"} /\ Return(-1, "open_device")
    /\ UNCHANGED <<optv, delivered, labv, probeLog, polls, pollsAfterQuit, reported, produced, cbv, idv, tss_response, fsFile, extracted, bootv, loopv>>

\* lines 325-332
RestoredClientNew ==
    /\ pc = "open_restore"
    /\ \E ok \in BOOLEAN :
        IF ok
        THEN owned' = owned \cup {"restore"} /\ Goto("query_type")
        ELSE owned' = owned \ {"tss_response", "device"}
             /\ Return(-1, "open_restore")
    /\ UNCHANGED <<optv, delivered, labv, probeLog, trace, polls, pollsAfterQuit, reported, produced, cbv, idv, tss_response, fsFile, extracted, bootv, loopv>>

\* lines 334-343
QueryType ==
    /\ pc = "query_type"
    /\ \E ok \in BOOLEAN :
        IF ok
        THEN owned' = owned /\ Goto("start_restore")
        ELSE owned' = owned \ {"tss_response", "restore", "device"}
             /\ Return(-1, "query_type")
    /\ UNCHANGED <<optv, delivered, labv, probeLog, trace, polls, pollsAfterQuit, reported, produced, cbv, idv, tss_response, fsFile, extracted, bootv, loopv>>

\* ------------------------------------------------------------------------
\* main(): the restore process (lines 345-413)
\* ------------------------------------------------------------------------
\* lines 345-349 and 404-406
StartRestore ==
    /\ pc = "start_restore"
    /\ \E e \in RestoreErrors :
        /\ restore_error' = e
        /\ startOk' = (e = RESTORE_E_SUCCESS)
        /\ IF e = RESTORE_E_SUCCESS THEN Goto("loop_test") ELSE Goto("cleanup")
    /\ UNCHANGED <<optv, delivered, labv, probeLog, trace, polls, pollsAfterQuit, reported, produced, cbv, idv, resv, bootv, message, recvCount, recvAfterQuit,
                   terminalSeen>>

\* Mutant of LoopTest: while (1), the quit flag is not read.
LoopTest_IgnoresQuit ==
    /\ pc = "loop_test"
    /\ Goto("receive")
    /\ UNCHANGED <<optv, delivered, labv, probeLog, trace, polls, pollsAfterQuit, reported, produced, cbv, idv, resv, bootv, loopv>>

\* line 350: while (!idevicerestore_quit)
LoopTest ==
    /\ pc = "loop_test"
    /\ IF quit = 0 THEN Goto("receive") ELSE Goto("cleanup")
    /\ UNCHANGED <<optv, delivered, labv, probeLog, trace, polls, pollsAfterQuit, reported, produced, cbv, idv, resv, bootv, loopv>>

\* lines 351-352
Receive ==
    /\ pc = "receive"
    /\ recvCount < MaxMsgs
    /\ \E m \in Messages, e \in RestoreErrors :
        /\ message' = m
        /\ restore_error' = e
    /\ recvCount' = recvCount + 1
    /\ recvAfterQuit' = IF quit # 0 THEN recvAfterQuit + 1 ELSE recvAfterQuit
    /\ produced' = <<>>
    /\ Goto("dispatch")
    /\ UNCHANGED <<optv, delivered, labv, probeLog, trace, polls, pollsAfterQuit, reported, cbv, idv, resv, bootv, terminalSeen, startOk>>

\* lines 397-402: report a non-success restore_error, free the message, and
\* go back to the loop condition.
EndIteration(e) ==
    /\ restore_error' = e
    /\ reported' = IF e # RESTORE_E_SUCCESS THEN reported + 1 ELSE reported
    /\ message' = NoMessage
    /\ Goto("loop_test")

\* lines 353-354 with no string MsgType node, then 397-402
IgnoreMessage ==
    /\ pc = "dispatch" /\ message.MsgType = NULL
    /\ EndIteration(restore_error)
    /\ UNCHANGED <<optv, delivered, labv, probeLog, trace, polls, pollsAfterQuit, produced, cbv, idv, resv, bootv, recvCount,
                   recvAfterQuit, terminalSeen, startOk>>

\* lines 357-358, then 397-402
HandleProgressMsg ==
    /\ pc = "dispatch" /\ message.MsgType = "ProgressMsg"
    /\ produced' = <<"restore_handle_progress_msg">>
    /\ \E e \in RestoreErrors : EndIteration(e)
    /\ UNCHANGED <<optv, delivered, labv, probeLog, trace, polls, pollsAfterQuit, cbv, idv, resv, bootv, recvCount, recvAfterQuit,
                   terminalSeen, startOk>>

\* Mutant of HandleDataRequestMsg: the SystemImageData branch falls through
\* into the NORData branch.
HandleDataRequestMsg_FallsThrough ==
    /\ pc = "dispatch" /\ message.MsgType = "DataRequestMsg"
    /\ CASE message.DataType = "SystemImageData" ->
                /\ produced' = <<"asr_send_system_image_data_from_file",
                                 "restore_send_nor_data">>
                /\ EndIteration(restore_error)
         [] message.DataType = "KernelCache" ->
                \E env \in Envs :
                    IF get_signed_component_by_name(tss_response, "KernelCache",
                                                    custom, debug, env).rc < 0
                    THEN /\ produced' = <<"get_signed_component_by_name">>
                         /\ UNCHANGED <<message, restore_error, reported>>
                         /\ Return(-1, "loop_kernelcache")
                    ELSE /\ produced' = <<"get_signed_component_by_name",
                                          "restore_send_kernelcache">>
                         /\ EndIteration(restore_error)
         [] message.DataType = "NORData" ->
                /\ produced' = <<"restore_send_nor_data">>
                /\ EndIteration(restore_error)
         [] message.DataType = NULL ->
                /\ produced' = <<>>
                /\ EndIteration(restore_error)
         [] OTHER ->
                /\ produced' = <<>>
                /\ UNCHANGED <<message, restore_error, reported>>
                /\ Return(-1, "loop_datatype")
    /\ UNCHANGED <<optv, delivered, labv, probeLog, trace, polls, pollsAfterQuit,
                   cbv, idv, resv, bootv, recvCount, recvAfterQuit, terminalSeen,
                   startOk>>

\* lines 360-387, then 397-402
HandleDataRequestMsg ==
    /\ pc = "dispatch" /\ message.MsgType = "DataRequestMsg"
    /\ CASE message.DataType = "SystemImageData" ->
                /\ produced' = <<"asr_send_system_image_data_from_file">>
                /\ EndIteration(restore_error)
         [] message.DataType = "KernelCache" ->
                \E env \in Envs :
                    IF get_signed_component_by_name(tss_response, "KernelCache",
                                                    custom, debug, env).rc < 0
                    THEN /\ produced' = <<"get_signed_component_by_name">>
                         /\ UNCHANGED <<message, restore_error, reported>>
                         /\ Return(-1, "loop_kernelcache")
                    ELSE /\ produced' = <<"get_signed_component_by_name",
                                          "restore_send_kernelcache">>
                         /\ EndIteration(restore_error)
         [] message.DataType = "NORData" ->
                /\ produced' = <<"restore_send_nor_data">>
                /\ EndIteration(restore_error)
         [] message.DataType = NULL ->
                /\ produced' = <<>>
                /\ EndIteration(restore_error)
         [] OTHER ->
                /\ produced' = <<>>
                /\ UNCHANGED <<message, restore_error, reported>>
                /\ Return(-1, "loop_datatype")
    /\ UNCHANGED <<optv, delivered, labv, probeLog, trace, polls, pollsAfterQuit,
                   cbv, idv, resv, bootv, recvCount, recvAfterQuit, terminalSeen,
                   startOk>>

\* Mutant of HandleStatusMsg: line 399 (idevicerestore_quit = 1) is not
\* commented out.
HandleStatusMsg_QuitsOnError ==
    /\ pc = "dispatch" /\ message.MsgType = "StatusMsg"
    /\ terminalSeen' = (terminalSeen \/ message.terminal)
    /\ produced' = <<"restore_handle_status_msg">>
    /\ \E e \in RestoreErrors :
        /\ EndIteration(e)
        /\ quit' = IF e # RESTORE_E_SUCCESS THEN 1 ELSE quit
    /\ UNCHANGED <<optv, delivered, labv, probeLog, trace, polls, pollsAfterQuit, mode, subscribed, idv, resv, bootv, recvCount, recvAfterQuit, startOk>>

\* lines 389-390, then 397-402
HandleStatusMsg ==
    /\ pc = "dispatch" /\ message.MsgType = "StatusMsg"
    /\ terminalSeen' = (terminalSeen \/ message.terminal)
    /\ produced' = <<"restore_handle_status_msg">>
    /\ \E e \in RestoreErrors : EndIteration(e)
    /\ UNCHANGED <<optv, delivered, labv, probeLog, trace, polls, pollsAfterQuit, cbv, idv, resv, bootv, recvCount, recvAfterQuit, startOk>>

\* lines 392-394, then 397-402
HandleUnknownMsg ==
    /\ pc = "dispatch" /\ message.MsgType = "UnknownMsg"
    /\ EndIteration(restore_error)
    /\ UNCHANGED <<optv, delivered, labv, probeLog, trace, polls, pollsAfterQuit, produced, cbv, idv, resv, bootv, recvCount,
                   recvAfterQuit, terminalSeen, startOk>>

\* lines 408-412
Cleanup ==
    /\ pc = "cleanup"
    /\ owned' = owned \ {"restore", "tss_response", "device"}
    /\ fsFile' = FALSE
    /\ Return(0, "end")
    /\ UNCHANGED <<optv, delivered, labv, probeLog, trace, polls, pollsAfterQuit, reported, produced, cbv, idv, tss_response, extracted, bootv, loopv>>

\* ------------------------------------------------------------------------
\* device_callback (lines 415-421), run by the event thread once subscribed
\* ------------------------------------------------------------------------
Events == {"IDEVICE_DEVICE_ADD", "IDEVICE_DEVICE_REMOVE"}

\* Mutant of device_callback: a removal also resets the mode.
device_callback_ResetsMode(event) ==
    /\ IF event = "IDEVICE_DEVICE_ADD"
       THEN mode' = RESTORE_MODE /\ quit' = quit
       ELSE quit' = 1 /\ mode' = UNKNOWN_MODE
    /\ UNCHANGED <<ctl, optv, labv, probeLog, trace, polls, pollsAfterQuit, reported, produced, subscribed, idv, resv, bootv, loopv>>

device_callback(event) ==
    /\ IF event = "IDEVICE_DEVICE_ADD"
       THEN mode' = RESTORE_MODE /\ quit' = quit
       ELSE IF event = "IDEVICE_DEVICE_REMOVE"
       THEN quit' = 1 /\ mode' = mode
       ELSE UNCHANGED <<mode, quit>>
    /\ UNCHANGED <<ctl, optv, labv, probeLog, trace, polls, pollsAfterQuit, reported, produced, subscribed, idv, resv, bootv, loopv>>

\* The event thread delivers an attach or detach event to the observer
\* registered at line 311.
DeviceEvent ==
    /\ subscribed /\ pc # "done"
    /\ \E event \in Events :
        /\ device_callback(event)
        /\ delivered' = delivered \cup {event}

Next ==
    \/ ParseArgs \/ Probe \/ LockdownConnect \/ LockdownGetEcid \/ RecoveryGetEcid
    \/ CheckEcid \/ ExtractManifest \/ TssCreateRequest \/ TssSendRequest
    \/ FilesystemName \/ ExtractFilesystem
    \/ SkipEnterRecovery \/ EnterRecoveryOpenDevice \/ EnterRecoveryLockdown
    \/ EnterRecovery
    \/ SendIBEC \/ SendAppleLogo \/ SendDeviceTree \/ SendRamdisk
    \/ Prompt \/ Getchar \/ SendKernelCache
    \/ Subscribe \/ PollRestoreMode \/ WaitRestoreMode \/ OpenRestoreDevice \/ RestoredClientNew
    \/ QueryType \/ StartRestore \/ LoopTest \/ Receive
    \/ IgnoreMessage \/ HandleProgressMsg \/ HandleDataRequestMsg
    \/ HandleStatusMsg \/ HandleUnknownMsg \/ Cleanup
    \/ DeviceEvent

Spec == Init /\ [][Next]_vars

\* ------------------------------------------------------------------------
\* Direct calls of the TSS lookups (lines 455-531) on bounded tickets
\* ------------------------------------------------------------------------
\* Bound of the model: number of entries of a ticket handed to a lookup.
MaxEntries == 2

LabKeys == {"iBEC", "KernelCache", "AppleLogo"}
LabPaths == {PathOf("iBEC"), PathOf("KernelCache")}
LabBlobs == {BlobOf("iBEC"), BlobOf("KernelCache")}

\* A top-level entry: a dictionary whose Path and Blob may each be absent,
\* or a node that is no dictionary.
LabEntries ==
    [key : LabKeys, type : {"dict"}, path : LabPaths \cup {NULL},
     blob : LabBlobs \cup {NULL}]
    \cup [key : LabKeys, type : {"string"}, path : {NULL}, blob : {NULL}]

\* Dictionaries of at most MaxEntries entries; the keys of a dictionary are
\* distinct.
LabTickets ==
    {t \in UNION {[1..n -> LabEntries] : n \in 0..MaxEntries} :
        \A i, j \in 1..Len(t) : t[i].key = t[j].key => i = j}

InitLookup ==
    /\ InitMain
    /\ fnIn \in [op : {"lookup"}, tss : LabTickets, name : LabKeys, path : LabPaths]
    /\ fnOut = NoCall

mainv == <<ctl, optv, cbv, delivered, idv, resv, bootv, loopv, histv>>

\* get_tss_data_by_name(tss, name, &path, &blob)
CallByName ==
    /\ fnOut = NoCall
    /\ fnOut' = [op |-> "get_tss_data_by_name",
                 r |-> get_tss_data_by_name(fnIn.tss, fnIn.name)]
    /\ UNCHANGED <<mainv, fnIn>>

\* get_tss_data_by_path(tss, path, &name, &blob)
CallByPath ==
    /\ fnOut = NoCall
    /\ fnOut' = [op |-> "get_tss_data_by_path",
                 r |-> get_tss_data_by_path(fnIn.tss, fnIn.path)]
    /\ UNCHANGED <<mainv, fnIn>>

\* get_tss_data_by_name, then get_tss_data_by_path with the path it returned
CallByNameThenPath ==
    /\ fnOut = NoCall
    /\ LET r1 == get_tss_data_by_name(fnIn.tss, fnIn.name) IN
        /\ r1.rc = 0
        /\ fnOut' = [op |-> "name_then_path", byName |-> r1,
                     byPath |-> get_tss_data_by_path(fnIn.tss, r1.path)]
    /\ UNCHANGED <<mainv, fnIn>>

NextLookup == CallByName \/ CallByPath \/ CallByNameThenPath

SpecLookup == InitLookup /\ [][NextLookup]_vars

\* ------------------------------------------------------------------------
\* Direct calls of the personalization pipeline (lines 533-689)
\* ------------------------------------------------------------------------
InitPipeline ==
    /\ InitMain
    /\ fnIn \in [op : {"pipeline"}, tss : Tickets,
                 key : Components \cup {PathOf(c) : c \in Components},
                 custom : {0, 1}, debug : {0, 1}, env : Envs]
    /\ fnOut = NoCall

\* get_signed_component_by_name(ipsw, tss, component, &data, &size)
CallSignedByName ==
    /\ fnOut = NoCall
    /\ fnIn.key \in Components
    /\ fnOut' = [op |-> "get_signed_component_by_name",
                 r |-> get_signed_component_by_name(fnIn.tss, fnIn.key, fnIn.custom,
                                                    fnIn.debug, fnIn.env)]
    /\ UNCHANGED <<mainv, fnIn>>

\* get_signed_component_by_path(ipsw, tss, path, &data, &size)
CallSignedByPath ==
    /\ fnOut = NoCall
    /\ fnIn.key \notin Components
    /\ fnOut' = [op |-> "get_signed_component_by_path",
                 r |-> get_signed_component_by_path(fnIn.tss, fnIn.key, fnIn.custom,
                                                    fnIn.debug, fnIn.env)]
    /\ UNCHANGED <<mainv, fnIn>>

NextPipeline == CallSignedByName \/ CallSignedByPath

SpecPipeline == InitPipeline /\ [][NextPipeline]_vars

\* ------------------------------------------------------------------------
\* Properties
\* ------------------------------------------------------------------------
IsPrefix(s, t) == Len(s) <= Len(t) /\ \A i \in 1..Len(s) : s[i] = t[i]

Handles == {"tss_response", "device", "lockdown", "recovery", "restore"}

\* C1: the boot-chain uploads are attempted in the order iBEC, AppleLogo,
\* DeviceTree, RestoreRamDisk, KernelCache, each at most once and each only
\* after the previous one succeeded; the operator prompt and its
\* acknowledgement follow the RestoreRamDisk upload and precede any attempt
\* to upload the KernelCache.
C1_BootChainOrder ==
    /\ IsPrefix(attempted, BootChain)
    /\ IsPrefix(uploaded, attempted)
    /\ Len(attempted) <= Len(uploaded) + 1
    /\ (prompted => Len(uploaded) >= 4)
    /\ (acked => prompted)
    /\ (Len(attempted) >= 5 => prompted /\ acked)

C1_Witness == uploaded = BootChain /\ prompted /\ acked

\* C2 (as claimed): once a StatusMsg carrying a terminal status has been
\* received, the loop does not receive again.
C2_TerminalStatusEndsLoop == terminalSeen => pc # "receive"

\* C3: a delivered DEVICE_REMOVE has set quit, and at most one receive (the
\* one of the iteration in progress) is made after quit was set.
C3_RemoveStopsLoop ==
    /\ ("IDEVICE_DEVICE_REMOVE" \in delivered => quit = 1)
    /\ recvAfterQuit <= 1
    /\ (quit = 0 => recvAfterQuit = 0)

C3_Witness == quit = 1 /\ recvAfterQuit = 1 /\ recvCount < MaxMsgs /\ pc = "cleanup"

\* C4: every change of the mode goes to a later mode along
\* UNKNOWN < NORMAL < RECOVERY < RESTORE, and RESTORE is kept.
C4_ModeMonotonic ==
    [][mode' >= mode /\ (mode = RESTORE_MODE => mode' = RESTORE_MODE)]_vars

C4_Witness ==
    /\ probed = NORMAL_MODE /\ mode = RESTORE_MODE
    /\ delivered = Events

\* C5 (as claimed): main returns success only when the restore was started
\* and the session reported a terminal status.
C5_SuccessOnlyOnCompletion ==
    (pc = "done" /\ ret = 0) => (startOk /\ terminalSeen)

\* C6 (as claimed): when main returns on a DataRequestMsg of unknown
\* DataType, it returns failure with the restore session closed and the
\* filesystem image removed.
C6_UnknownDataTypeCleansUp ==
    (pc = "done" /\ phase = "loop_datatype") =>
        (ret = -1 /\ "restore" \notin owned /\ ~fsFile)

\* C7 (as claimed): whenever main has returned after extracting the
\* filesystem image, the image file has been removed.
C7_TempFileRemovedOnExit == (pc = "done" /\ extracted) => ~fsFile

\* C8 (as claimed): whenever main has returned failure, no ticket or handle
\* is left unreleased.
C8_FailureReleasesHandles == (pc = "done" /\ ret = -1) => owned \cap Handles = {}

\* C9: lockdownd_enter_recovery is called at most once, and only in a run
\* whose probe found the device in normal mode (never when it found it in
\* recovery mode).
C9_EnterRecoveryOnlyFromNormal ==
    /\ enterRecoveryCalls <= 1
    /\ (enterRecoveryCalls > 0 => probed = NORMAL_MODE)
    /\ (probed = RECOVERY_MODE => enterRecoveryCalls = 0)

C9_Witness == probed = RECOVERY_MODE /\ enterRecoveryCalls = 0 /\ Len(uploaded) > 0

\* C10: once a boot-chain upload has failed, main has returned failure at
\* that step: nothing later was attempted, the observer was not subscribed
\* (the wait was not entered) and no restore session was opened.
C10_UploadFailureStops ==
    Len(attempted) > Len(uploaded) =>
        /\ pc = "done" /\ ret = -1
        /\ phase \in {"send_ibec", "send_applelogo", "send_devicetree",
                      "send_ramdisk", "send_kernelcache"}
        /\ Len(attempted) = Len(uploaded) + 1
        /\ ~subscribed
        /\ "restore" \notin owned
        /\ recvCount = 0 /\ ~startOk

C10_Witness ==
    /\ attempted = BootChain /\ Len(uploaded) = 4
    /\ pc = "done" /\ phase = "send_kernelcache"
    /\ DictGetItem(tss_response, "KernelCache") = NoNode

Range(f) == {f[i] : i \in DOMAIN f}

Without(f, x) == SelectSeq(f, LAMBDA y : y # x)

\* The same direct call of the pipeline with custom mode off and a
\* signature replacement that succeeds.
CustomOffResult ==
    IF fnOut.op = "get_signed_component_by_name"
    THEN get_signed_component_by_name(fnIn.tss, fnIn.key, 0, fnIn.debug,
                                      [fnIn.env EXCEPT !.replace = TRUE])
    ELSE get_signed_component_by_path(fnIn.tss, fnIn.key, 0, fnIn.debug,
                                      [fnIn.env EXCEPT !.replace = TRUE])

\* C11: in both variants of the pipeline, once the image is parsed the
\* signature replacement is called exactly when custom mode is off, and the
\* result carries the ticket's blob exactly then; with custom mode on the
\* calls made, the return code, the payload and the file persisted in debug
\* mode are those of the same call with custom mode off, less the
\* replacement, and the signature is the one extracted.
C11_CustomSkipsOnlyReplacement ==
    fnOut.op \in {"get_signed_component_by_name", "get_signed_component_by_path"} =>
        LET r == fnOut.r
            off == CustomOffResult
        IN
        /\ ("img3_replace_signature" \in Range(r.steps)) <=>
               (fnIn.custom = 0 /\ "img3_parse_file" \in Range(r.steps) /\ fnIn.env.parse)
        /\ r.rc = 0 => (r.replaced <=> fnIn.custom = 0)
        /\ (r.rc = 0 /\ fnIn.custom = 0) => r.data.sig # OrigSig
        /\ fnIn.custom # 0 =>
            /\ r.rc = off.rc
            /\ r.steps = Without(off.steps, "img3_replace_signature")
            /\ r.written = off.written
            /\ r.rc = 0 => (r.data.payload = off.data.payload /\ r.data.sig = OrigSig)

C11_Witness ==
    /\ fnOut.op = "get_signed_component_by_path"
    /\ fnIn.custom = 1 /\ fnIn.debug = 1 /\ ~fnIn.env.replace
    /\ fnOut.r.rc = 0 /\ fnOut.r.written = "iBEC.img3"

\* The dictionary entries of a ticket whose Path is p.
PathMatches(tss, p) == {i \in 1..Len(tss) : tss[i].type = "dict" /\ tss[i].path = p}

UniquePaths(tss) ==
    \A i, j \in 1..Len(tss) :
        (tss[i].type = "dict" /\ tss[j].type = "dict" /\ tss[i].path # NULL
         /\ tss[i].path = tss[j].path) => i = j

\* C13 (as claimed, for tickets whose paths are unique): when the lookup by
\* name succeeds with (path, blob), the lookup by that path succeeds and
\* returns the same blob and the name.
C13_LookupsAreInverse ==
    (fnOut.op = "name_then_path" /\ UniquePaths(fnIn.tss)) =>
        /\ fnOut.byPath.rc = 0
        /\ fnOut.byPath.blob = fnOut.byName.blob
        /\ fnOut.byPath.name = fnIn.name

\* C15 (as claimed, for tickets whose first entry of the requested path
\* carries a blob): the lookup by path fails exactly when no dictionary
\* entry has the requested Path, and otherwise returns the name and blob of
\* the first such entry.
C15_ByPathFirstMatch ==
    fnOut.op = "get_tss_data_by_path" =>
        LET m == PathMatches(fnIn.tss, fnIn.path) IN
        IF m = {}
        THEN fnOut.r.rc = -1
        ELSE LET first == CHOOSE i \in m : \A j \in m : i <= j IN
             fnIn.tss[first].blob # NULL =>
                /\ fnOut.r.rc = 0
                /\ fnOut.r.name = fnIn.tss[first].key
                /\ fnOut.r.blob = fnIn.tss[first].blob

\* C14: the probe calls idevice_new first and irecv_open only after
\* idevice_new failed; main returns "unable to find device" exactly when
\* both failed; the mode is NORMAL exactly when idevice_new succeeded and
\* RECOVERY exactly when idevice_new failed and irecv_open succeeded.
C14_ProbeOrder ==
    /\ (probeLog = <<>>) <=> (pc \in {"start", "probe"} \/ phase = "no_ipsw")
    /\ probeLog # <<>> =>
        /\ probeLog[1].call = "idevice_new"
        /\ Len(probeLog) = IF probeLog[1].ok THEN 1 ELSE 2
        /\ Len(probeLog) = 2 => probeLog[2].call = "irecv_open"
        /\ (phase = "no_device") <=> (\A i \in 1..Len(probeLog) : ~probeLog[i].ok)
        /\ (probed = NORMAL_MODE) <=> probeLog[1].ok
        /\ (probed = RECOVERY_MODE) <=>
               (Len(probeLog) = 2 /\ ~probeLog[1].ok /\ probeLog[2].ok)

C14_Witness ==
    /\ Len(probeLog) = 2 /\ probed = RECOVERY_MODE /\ pc = "ecid"

\* C12: the dispatch of a message that is no data request, whatever
\* restore_error holds after it, leaves quit as it was and goes back to the
\* loop condition, printing the error when restore_error is not success;
\* from the loop condition the loop goes on to receive unless quit is set.
C12_ErrorsDoNotEndLoop ==
    [][/\ (pc = "dispatch" /\ pc' # pc /\ message.MsgType # "DataRequestMsg") =>
            /\ pc' = "loop_test"
            /\ quit' = quit
            /\ reported' = IF restore_error' # RESTORE_E_SUCCESS
                           THEN reported + 1 ELSE reported
       /\ (pc = "loop_test" /\ pc' # pc) => (pc' = "receive" <=> quit = 0)]_vars

C12_Witness ==
    /\ pc = "receive" /\ quit = 0
    /\ restore_error # RESTORE_E_SUCCESS /\ reported = 2

\* The calls the dispatch of message m makes when it ends at position p.
ExpectedCalls(m, p) ==
    CASE m.MsgType = "ProgressMsg" -> <<"restore_handle_progress_msg">>
      [] m.MsgType = "StatusMsg" -> <<"restore_handle_status_msg">>
      [] m.MsgType = "DataRequestMsg" /\ m.DataType = "SystemImageData" ->
            <<"asr_send_system_image_data_from_file">>
      [] m.MsgType = "DataRequestMsg" /\ m.DataType = "KernelCache" ->
            IF p = "done"
            THEN <<"get_signed_component_by_name">>
            ELSE <<"get_signed_component_by_name", "restore_send_kernelcache">>
      [] m.MsgType = "DataRequestMsg" /\ m.DataType = "NORData" ->
            <<"restore_send_nor_data">>
      [] OTHER -> <<>>

\* C16: the dispatch of a message calls exactly the producer of its
\* DataType (the filesystem image stream, the personalization of
\* "KernelCache" by name followed by its transmission, the NOR data), only
\* the sink for a ProgressMsg or StatusMsg, and nothing for any other
\* message type, after which the loop continues.
C16_OneProducerPerRequest ==
    [][(pc = "dispatch" /\ pc' # pc) =>
            /\ produced' = ExpectedCalls(message, pc')
            /\ (message.MsgType # "DataRequestMsg" => pc' = "loop_test")
            /\ (message.MsgType = "DataRequestMsg"
                /\ message.DataType \in {"SystemImageData", "NORData"}
                    => pc' = "loop_test")]_vars

C16_Witness ==
    /\ produced = <<"get_signed_component_by_name", "restore_send_kernelcache">>
    /\ pc = "loop_test" /\ recvCount = MaxMsgs

\* The phases of main() in the order of the source.
PhaseOrder ==
    <<"probe", "ecid", "manifest", "signing", "filesystem", "enter_recovery",
      "boot_chain", "await_restore", "restore_session">>

\* The phase a failure return of main() belongs to.
PhaseOfReturn(tag) ==
    CASE tag = "no_device" -> "probe"
      [] tag \in {"ecid_lockdown", "ecid_value", "ecid_recovery", "ecid_zero"} -> "ecid"
      [] tag = "manifest" -> "manifest"
      [] tag \in {"tss_create", "tss_send"} -> "signing"
      [] tag \in {"fs_name", "fs_extract"} -> "filesystem"
      [] tag \in {"recovery_device", "recovery_lockdown", "recovery_enter"} ->
            "enter_recovery"
      [] tag \in {"send_ibec", "send_applelogo", "send_devicetree", "send_ramdisk",
                  "send_kernelcache"} -> "boot_chain"
      [] tag \in {"open_device", "open_restore", "query_type", "loop_kernelcache",
                  "loop_datatype"} -> "restore_session"
      [] OTHER -> NULL

\* C17: the phases are entered in the order probe, ECID read, manifest,
\* signing request, filesystem image, enter-recovery (only after a probe
\* that found normal mode), boot chain, await restore mode, restore
\* session; the enter-recovery instruction and every upload come after the
\* ticket was received and the filesystem image extracted; each phase is
\* entered only after the previous ones succeeded, and a failure return is
\* made from the last phase entered.
C17_PhaseOrder ==
    /\ IsPrefix(trace, IF probed = RECOVERY_MODE
                       THEN Without(PhaseOrder, "enter_recovery")
                       ELSE PhaseOrder)
    /\ (enterRecoveryCalls > 0 \/ attempted # <<>>) =>
            (tss_response # NoTicket /\ extracted)
    /\ "manifest" \in Range(trace) => ecid # 0
    /\ "filesystem" \in Range(trace) => tss_response # NoTicket
    /\ "enter_recovery" \in Range(trace) => extracted
    /\ "boot_chain" \in Range(trace) =>
            (extracted /\ (probed = NORMAL_MODE => enterRecoveryCalls = 1))
    /\ "await_restore" \in Range(trace) => uploaded = BootChain
    /\ "restore_session" \in Range(trace) => mode = RESTORE_MODE
    /\ (pc = "done" /\ ret = -1 /\ phase # "no_ipsw") =>
            (trace # <<>> /\ trace[Len(trace)] = PhaseOfReturn(phase))

C17_Witness == trace = PhaseOrder /\ pc = "loop_test"

\* C18: the observer is subscribed only after the KernelCache upload
\* succeeded, events are delivered only to a subscribed observer, the wait
\* for restore mode is left only after a DEVICE_ADD was delivered, and the
\* restore session is opened only after that.
C18_SessionOnlyAfterDeviceAdd ==
    /\ subscribed => uploaded = BootChain
    /\ delivered # {} => subscribed
    /\ (pc \in {"open_device", "open_restore", "query_type", "start_restore",
                "loop_test", "receive", "dispatch", "cleanup"}
        \/ "restore_session" \in Range(trace)
        \/ "restore" \in owned
        \/ recvCount > 0) =>
            ("IDEVICE_DEVICE_ADD" \in delivered /\ subscribed /\ uploaded = BootChain)

C18_Witness == "restore" \in owned /\ pc = "start_restore" /\ polls > 0

\* C19 (as claimed): the wait for restore mode observes quit, no sleep(1)
\* of the wait is made once quit is set.
C19_WaitObservesQuit == pollsAfterQuit = 0

\* C20: the recovery handle opened by the probe is held only until the ECID
\* read and never with another handle; the lockdown handle is held only
\* together with the normal-mode device handle, for the ECID read and for
\* enter-recovery; once the boot-chain upload has started no device,
\* lockdown or recovery handle is held until the restore-mode device is
\* opened; a restore session is never held with a lockdown or recovery
\* handle.
C20_HandlesPerMode ==
    /\ "recovery" \in owned =>
            (pc = "ecid" /\ owned \cap {"device", "lockdown", "restore"} = {})
    /\ "lockdown" \in owned =>
            /\ pc \in {"ecid_value", "recovery_enter"}
            /\ "device" \in owned /\ "restore" \notin owned
    /\ (pc \in {"ecid_check", "manifest", "tss_create", "tss_send", "fs_name",
                "fs_extract"}
        \/ ("boot_chain" \in Range(trace) /\ "restore_session" \notin Range(trace))) =>
            owned \cap {"device", "lockdown", "recovery", "restore"} = {}
    /\ ("device" \in owned /\ "restore_session" \notin Range(trace)) =>
            (mode = NORMAL_MODE /\ attempted = <<>>)
    /\ "restore" \in owned =>
            ("device" \in owned /\ mode = RESTORE_MODE
             /\ owned \cap {"lockdown", "recovery"} = {})

C20_Witness ==
    /\ probed = NORMAL_MODE /\ enterRecoveryCalls = 1
    /\ "restore" \in owned /\ pc = "dispatch"

\* C21: main() never goes past the ECID phase with an ECID of 0: wherever
\* the manifest was extracted, a TSS request built or sent, a ticket
\* received, the enter-recovery instruction sent or an upload attempted, the
\* ECID is not 0; and when the ECID read from lockdownd or from the recovery
\* client is 0, main() returns -1 from the ECID check.
C21_NoZeroEcidPastIdentity ==
    /\ (pc \in {"manifest", "tss_create", "tss_send", "fs_name", "fs_extract"}
        \/ Range(trace) \cap {"manifest", "signing", "filesystem",
                              "enter_recovery", "boot_chain"} # {}
        \/ owned \cap {"manifest", "tss_request", "tss_response"} # {}
        \/ tss_response # NoTicket
        \/ enterRecoveryCalls > 0
        \/ attempted # <<>>) => ecid # 0
    /\ (pc = "done" /\ phase = "ecid_zero") =>
            /\ ret = -1 /\ ecid = 0
            /\ trace \in {<<"probe", "ecid">>}
            /\ tss_response = NoTicket /\ enterRecoveryCalls = 0
            /\ attempted = <<>> /\ mode = probed
    /\ (ecid = 0 /\ pc \notin {"start", "probe", "ecid", "ecid_value", "ecid_check"}) =>
            (pc = "done" /\ ret = -1
             /\ phase \in {"no_ipsw", "no_device", "ecid_lockdown", "ecid_value",
                           "ecid_recovery", "ecid_zero"})

C21_Witness ==
    /\ pc = "done" /\ phase = "ecid_zero" /\ ecid = 0
    /\ probed = RECOVERY_MODE

====
